---------------------------- MODULE Spec2Model ----------------------------
(***************************************************************************)
(* A model of src/example.py: the validated Config dataclass, the          *)
(* SecureAPI client (make_request, get_user_info), validate_input and      *)
(* safe_file_operation.                                                    *)
(*                                                                         *)
(* Python strings the code looks inside (paths, user ids, endpoints,       *)
(* validated input, the api key) are sequences of one-character strings,   *)
(* so that lower(), strip(), lstrip(), `in`, startswith() and resolve()    *)
(* are computed character by character as the code computes them.          *)
(* Strings the code only compares whole (HTTP method, operation mode,      *)
(* exception class names) are TLA+ strings.                                *)
(***************************************************************************)
EXTENDS Integers, Sequences, FiniteSets, TLC

VARIABLES
    config,     \* the Config object the caller holds (the one built last)
    api,        \* the SecureAPI object the caller holds: its session and its config
    fs,         \* the filesystem: resolved path -> entry
    cwd,        \* the process's working directory
    last        \* the last call made and what it gave back to its caller

vars == <<config, api, fs, cwd, last>>

(***************************************************************************)
(* Python values.                                                          *)
(***************************************************************************)
PyNone == [t |-> "NoneType", v |-> <<>>]
PyStr(s) == [t |-> "str", v |-> s]
PyInt(n) == [t |-> "int", v |-> <<n>>]
PyTrue == [t |-> "bool", v |-> <<1>>]
PyFalse == [t |-> "bool", v |-> <<0>>]
PyDict(fields) == [t |-> "dict", v |-> <<fields>>]

\* bool(x): None, "", 0, False and {} are falsy.
Truthy(x) ==
    CASE x.t = "NoneType" -> FALSE
      [] x.t = "str" -> Len(x.v) > 0
      [] x.t = "int" -> x.v[1] # 0
      [] x.t = "bool" -> x.v[1] # 0
      [] x.t = "dict" -> DOMAIN x.v[1] # {}
      [] OTHER -> TRUE

isinstance_str(x) == x.t = "str"

\* What a call gives its caller: a returned value or a raised exception.
Return(x) == [kind |-> "return", value |-> x, exc |-> "-"]
Raise(e) == [kind |-> "raise", value |-> PyNone, exc |-> e]

(***************************************************************************)
(* str methods.                                                            *)
(***************************************************************************)
UpperAlpha == <<"A", "B", "C", "D", "E", "F", "G", "H", "I", "J", "K", "L", "M", "N", "O", "P", "Q", "R", "S", "T", "U", "V", "W", "X", "Y", "Z">>
LowerAlpha == <<"a", "b", "c", "d", "e", "f", "g", "h", "i", "j", "k", "l", "m", "n", "o", "p", "q", "r", "s", "t", "u", "v", "w", "x", "y", "z">>

LowerChar(c) ==
    IF \E i \in 1..Len(UpperAlpha) : UpperAlpha[i] = c
    THEN LowerAlpha[CHOOSE i \in 1..Len(UpperAlpha) : UpperAlpha[i] = c]
    ELSE c

\* s.lower()
lower(s) == [i \in 1..Len(s) |-> LowerChar(s[i])]

\* needle in hay
Contains(needle, hay) ==
    \E i \in 0..(Len(hay) - Len(needle)) :
        SubSeq(hay, i + 1, i + Len(needle)) = needle

\* s.startswith(prefix)
startswith(s, prefix) ==
    Len(prefix) <= Len(s) /\ SubSeq(s, 1, Len(prefix)) = prefix

\* The characters str.isspace() holds of, which strip() removes: the ASCII
\* ones, 0x09-0x0d, 0x1c-0x1f and the space. (The strings of this module
\* are ASCII; Python also strips U+0085, U+00A0 and the Unicode spaces.)
Whitespace == {"\t", "\n", "", "\f", "\r", "", "", "", "", " "}

\* s.lstrip(chars)
RECURSIVE lstrip(_, _)
lstrip(s, chars) ==
    IF s # <<>> /\ Head(s) \in chars THEN lstrip(Tail(s), chars) ELSE s

\* s.rstrip(chars)
RECURSIVE rstrip(_, _)
rstrip(s, chars) ==
    IF s # <<>> /\ s[Len(s)] \in chars
    THEN rstrip(SubSeq(s, 1, Len(s) - 1), chars)
    ELSE s

\* s.strip()
strip(s) == rstrip(lstrip(s, Whitespace), Whitespace)

(***************************************************************************)
(* validate_input                                                          *)
(***************************************************************************)
dangerous_patterns ==
    << <<"<", "s", "c", "r", "i", "p", "t", ">">>,
       <<"j", "a", "v", "a", "s", "c", "r", "i", "p", "t", ":">>,
       <<"d", "a", "t", "a", ":", "t", "e", "x", "t", "/", "h", "t", "m", "l">>,
       <<"v", "b", "s", "c", "r", "i", "p", "t", ":">>,
       <<"o", "n", "l", "o", "a", "d", "=">>,
       <<"o", "n", "e", "r", "r", "o", "r", "=">> >>

\* The loop over dangerous_patterns: the index of the first pattern found in
\* data_lower, 0 when the loop ends without a match.
RECURSIVE FirstDangerous(_, _)
FirstDangerous(data_lower, i) ==
    IF i > Len(dangerous_patterns) THEN 0
    ELSE IF Contains(dangerous_patterns[i], data_lower) THEN i
    ELSE FirstDangerous(data_lower, i + 1)

\* A plausible bug: the patterns are looked for in the input as given.
validate_input_no_lower(data) ==
    IF ~Truthy(data) \/ ~isinstance_str(data)
    THEN [out |-> Return(PyFalse), warned |-> 0]
    ELSE LET m == FirstDangerous(data.v, 1)
         IN  IF m > 0
             THEN [out |-> Return(PyFalse), warned |-> m]
             ELSE [out |-> Return(PyTrue), warned |-> 0]

\* validate_input(data): the value returned and the pattern the warning names.
validate_input(data) ==
    IF ~Truthy(data) \/ ~isinstance_str(data)
    THEN [out |-> Return(PyFalse), warned |-> 0]
    ELSE LET data_lower == lower(data.v)
             m == FirstDangerous(data_lower, 1)
         IN  IF m > 0
             THEN [out |-> Return(PyFalse), warned |-> m]
             ELSE [out |-> Return(PyTrue), warned |-> 0]

(***************************************************************************)
(* pathlib: Path(file_path).resolve() on POSIX, strict=False.              *)
(***************************************************************************)
\* The segments of a path string: split at "/", empty and "." segments
\* dropped (".." is kept for resolve to act on).
RECURSIVE SplitFrom(_, _, _)
SplitFrom(s, i, cur) ==
    LET keep == IF cur = <<>> \/ cur = <<".">> THEN <<>> ELSE <<cur>>
    IN  IF i > Len(s) THEN keep
        ELSE IF s[i] = "/" THEN keep \o SplitFrom(s, i + 1, <<>>)
        ELSE SplitFrom(s, i + 1, Append(cur, s[i]))

Segments(s) == SplitFrom(s, 1, <<>>)

\* str() of an absolute path given by its segments.
RECURSIVE JoinFrom(_, _)
JoinFrom(segs, i) ==
    IF i > Len(segs) THEN <<>>
    ELSE <<"/">> \o segs[i] \o JoinFrom(segs, i + 1)

PathStr(segs) == IF segs = <<>> THEN <<"/">> ELSE JoinFrom(segs, 1)

IsSymlink(fsys, p) == p \in DOMAIN fsys /\ fsys[p].kind = "symlink"

\* os.path.realpath: the segments left to right; ".." drops the last
\* segment resolved so far, a symbolic link is replaced by its target
\* (the model's links have absolute targets and form no cycle), a
\* component that does not exist is kept as it is.
RECURSIVE RealPath(_, _, _)
RealPath(done, rest, fsys) ==
    IF rest = <<>> THEN done
    ELSE LET name == Head(rest)
             new == Append(done, name)
         IN  IF name = <<".", ".">>
             THEN RealPath(IF done = <<>> THEN <<>> ELSE SubSeq(done, 1, Len(done) - 1),
                           Tail(rest), fsys)
             ELSE IF IsSymlink(fsys, PathStr(new))
             THEN RealPath(<<>>, Segments(fsys[PathStr(new)].target) \o Tail(rest), fsys)
             ELSE RealPath(new, Tail(rest), fsys)

\* str(Path(p).resolve()): a relative path starts from the working directory.
resolve(p, wd, fsys) ==
    PathStr(RealPath(IF p # <<>> /\ Head(p) = "/" THEN <<>> ELSE Segments(wd),
                     Segments(p), fsys))

\* open() walks the directories above the file: the first one that is
\* missing gives FileNotFoundError, the first one that is a regular file
\* gives NotADirectoryError. 0 when every one is a directory.
RECURSIVE FirstBadParent(_, _, _)
FirstBadParent(segs, i, fsys) ==
    IF i >= Len(segs) THEN 0
    ELSE IF PathStr(SubSeq(segs, 1, i)) \notin DOMAIN fsys THEN i
    ELSE IF fsys[PathStr(SubSeq(segs, 1, i))].kind = "file" THEN i
    ELSE FirstBadParent(segs, i + 1, fsys)

\* path.read_text(encoding="utf-8"): open() follows symbolic links, so the
\* file read is the one at the real path.
read_text(path, fsys) ==
    LET real == PathStr(RealPath(<<>>, Segments(path), fsys))
        segs == Segments(real)
        bad == FirstBadParent(segs, 1, fsys)
    IN  IF bad > 0 /\ PathStr(SubSeq(segs, 1, bad)) \in DOMAIN fsys
        THEN Raise("NotADirectoryError")
        ELSE IF real \notin DOMAIN fsys THEN Raise("FileNotFoundError")
        ELSE IF fsys[real].kind = "dir" THEN Raise("IsADirectoryError")
        ELSE IF ~fsys[real].readable THEN Raise("PermissionError")
        ELSE IF ~fsys[real].utf8 THEN Raise("UnicodeDecodeError")
        ELSE Return(PyStr(fsys[real].text))

(***************************************************************************)
(* safe_file_operation                                                     *)
(***************************************************************************)
ALLOWED_DIRECTORY == <<"/", "a", "l", "l", "o", "w", "e", "d", "/", "d", "i", "r", "e", "c", "t", "o", "r", "y">>

\* A plausible bug: the check looks for a ".." path segment.
has_traversal_by_segment(path) ==
    \E i \in 1..Len(Segments(path)) : Segments(path)[i] = <<".", ".">>

\* ".." in str(path)
has_traversal(path) == Contains(<<".", ".">>, path)

\* str(path).startswith(str(allowed_dir))
within_allowed(path, allowed_dir) == startswith(path, allowed_dir)

\* A plausible bug: the write branch writes the file.
write_branch_writes(path, fsys) ==
    [q \in DOMAIN fsys \cup {path} |->
        IF q = path
        THEN [kind |-> "file", text |-> <<>>, readable |-> TRUE, utf8 |-> TRUE,
              target |-> <<>>]
        ELSE fsys[q]]

\* The "write" branch: `pass`. The filesystem after it.
write_branch(path, fsys) == fsys

\* A plausible bug: the handler logs and raises again, as make_request's does.
except_reraise(r) == r

\* except Exception: log, return None.
except_Exception(r) ==
    IF r.out.kind = "raise" THEN [r EXCEPT !.out = Return(PyNone)] ELSE r

\* The body of the try block: the outcome, the path handed to read_text
\* (<<>> when no file is opened), the resolved path, and the filesystem
\* after. Path(file_path) raises TypeError for a file_path that is no string.
safe_file_operation_try(file_path, operation, wd, fsys) ==
    IF file_path.t # "str"
    THEN [out |-> Raise("TypeError"), opened |-> <<>>, path |-> <<>>, fs |-> fsys]
    ELSE
    LET path == resolve(file_path.v, wd, fsys)
        allowed_dir == resolve(ALLOWED_DIRECTORY, wd, fsys)
        no(o) == [out |-> o, opened |-> <<>>, path |-> path, fs |-> fsys]
    IN  IF has_traversal(path) THEN no(Return(PyNone))
        ELSE IF ~within_allowed(path, allowed_dir) THEN no(Return(PyNone))
        ELSE IF operation = "read"
        THEN [out |-> read_text(path, fsys), opened |-> path, path |-> path, fs |-> fsys]
        ELSE IF operation = "write"
        THEN [out |-> Return(PyNone), opened |-> <<>>, path |-> path,
              fs |-> write_branch(path, fsys)]
        ELSE no(Return(PyNone))

safe_file_operation(file_path, operation, wd, fsys) ==
    except_Exception(safe_file_operation_try(file_path, operation, wd, fsys))

(***************************************************************************)
(* Config                                                                  *)
(***************************************************************************)
MAX_RETRIES == 3
DEFAULT_TIMEOUT == 30
\* os.getenv("API_BASE_URL", ...) with the variable unset.
API_BASE_URL == <<"h", "t", "t", "p", "s", ":", "/", "/", "a", "p", "i", ".", "e", "x", "a", "m", "p", "l", "e", ".", "c", "o", "m">>

\* An argument the caller leaves out.
Omitted == [t |-> "omitted", v |-> <<>>]
Default(arg, d) == IF arg.t = "omitted" THEN PyInt(d) ELSE arg

NoConfig == [alive |-> FALSE, api_key |-> <<>>, timeout |-> 0, max_retries |-> 0]

\* The generated __init__: the fields are stored, defaults filled in.
Config_init(api_key, timeout, max_retries) ==
    [alive |-> TRUE,
     api_key |-> api_key.v,
     timeout |-> Default(timeout, DEFAULT_TIMEOUT).v[1],
     max_retries |-> Default(max_retries, MAX_RETRIES).v[1]]

\* A plausible bug: a timeout of 0 is let through.
post_init_timeout_negative(self) ==
    IF ~Truthy(PyStr(self.api_key)) THEN Raise("ValueError")
    ELSE IF self.timeout < 0 THEN Raise("ValueError")
    ELSE IF self.max_retries < 0 THEN Raise("ValueError")
    ELSE Return(PyNone)

\* Config.__post_init__
post_init(self) ==
    IF ~Truthy(PyStr(self.api_key)) THEN Raise("ValueError")
    ELSE IF self.timeout <= 0 THEN Raise("ValueError")
    ELSE IF self.max_retries < 0 THEN Raise("ValueError")
    ELSE Return(PyNone)

(***************************************************************************)
(* SecureAPI                                                               *)
(***************************************************************************)
NoApi == [alive |-> FALSE, Authorization |-> <<>>, config |-> NoConfig, shared |-> FALSE]

\* SecureAPI.__init__: self.config is the caller's Config object itself
\* (shared), self.session has the headers _create_session computes, the
\* Authorization header from the api key at that time. Without the requests
\* library the import raises ModuleNotFoundError (an ImportError), which
\* _create_session logs and raises again.
create_session(cfg, requests_available) ==
    IF requests_available
    THEN [out |-> Return(PyNone),
          api |-> [alive |-> TRUE, Authorization |-> <<"B", "e", "a", "r", "e", "r", " ">> \o cfg.api_key,
                   config |-> cfg, shared |-> TRUE]]
    ELSE [out |-> Raise("ModuleNotFoundError"), api |-> NoApi]

\* What the transport does with a call: a response, or an exception of the
\* HTTP library raised by session.request.
Response(status, valid, value) ==
    [kind |-> "response", status_code |-> status, valid_json |-> valid,
     json |-> value, exc |-> "-"]
TransportError(e) ==
    [kind |-> "exception", status_code |-> 0, valid_json |-> FALSE,
     json |-> PyNone, exc |-> e]

\* response.raise_for_status(): HTTPError for a 4xx or 5xx status.
raise_for_status(response) ==
    IF 400 <= response.status_code /\ response.status_code < 600
    THEN Raise("HTTPError")
    ELSE Return(PyNone)

\* response.json()
response_json(response) ==
    IF response.valid_json THEN Return(response.json) ELSE Raise("JSONDecodeError")

\* session.request(..., timeout=t) on the session _create_session builds:
\* the HTTP adapter refuses a timeout <= 0 with ValueError before it
\* connects; otherwise the transport answers or raises.
session_request(cfg, transport) ==
    IF cfg.timeout <= 0 THEN Raise("ValueError")
    ELSE IF transport.kind = "exception" THEN Raise(transport.exc)
    ELSE Return(PyNone)

\* One pass through the try block.
request_once(cfg, transport) ==
    IF session_request(cfg, transport).kind = "raise"
    THEN session_request(cfg, transport)
    ELSE IF raise_for_status(transport).kind = "raise" THEN raise_for_status(transport)
    ELSE response_json(transport)

\* url = f"{API_BASE_URL}/{endpoint.lstrip('/')}"
request_url(endpoint) == API_BASE_URL \o <<"/">> \o lstrip(endpoint, {"/"})

\* The arguments of session.request.
session_call(cfg, endpoint, method, data) ==
    [method |-> method, url |-> request_url(endpoint), json |-> data,
     timeout |-> cfg.timeout]

\* A plausible bug: a failed call is repeated while the retry budget lasts.
make_request_retrying(cfg, endpoint, method, data, transport) ==
    LET r == request_once(cfg, transport)
        n == IF r.kind = "raise" /\ cfg.max_retries > 0 THEN 1 + cfg.max_retries ELSE 1
    IN  [out |-> r,
         calls |-> [i \in 1..n |-> session_call(cfg, endpoint, method, data)]]

\* SecureAPI.make_request: the outcome (the handler logs and raises again)
\* and the calls made on the session.
make_request(cfg, endpoint, method, data, transport) ==
    [out |-> request_once(cfg, transport),
     calls |-> <<session_call(cfg, endpoint, method, data)>>]

\* A plausible bug: only the empty user id is refused.
get_user_info_no_strip(cfg, user_id, transport) ==
    IF ~Truthy(user_id)
    THEN [out |-> Raise("ValueError"), calls |-> <<>>]
    ELSE make_request(cfg, <<"u", "s", "e", "r", "s", "/">> \o user_id.v, "GET", PyNone, transport)

\* SecureAPI.get_user_info
get_user_info(cfg, user_id, transport) ==
    IF ~Truthy(user_id) \/ ~Truthy(PyStr(strip(user_id.v)))
    THEN [out |-> Raise("ValueError"), calls |-> <<>>]
    ELSE make_request(cfg, <<"u", "s", "e", "r", "s", "/">> \o user_id.v, "GET", PyNone, transport)

(***************************************************************************)
(* Bounds and the inputs drawn from them.                                  *)
(***************************************************************************)
\* Padding of at most this many characters before and after a validated string.
MaxPad == 2
\* At most this many "/.." steps in a requested path.
MaxUp == 2
\* Integer arguments of Config range over -1..MaxArg (and the defaults).
MaxArg == 1

Pad(n) == [i \in 1..n |-> "x"]

ValidateCores ==
    { dangerous_patterns[i] : i \in 1..Len(dangerous_patterns) } \cup
    { <<"<", "S", "C", "R", "I", "P", "T", ">">>, <<"J", "a", "v", "a", "S", "c", "r", "i", "p", "t", ":">>, <<"D", "a", "t", "a", ":", "T", "e", "x", "t", "/", "H", "T", "M", "L">>, <<"V", "B", "S", "C", "R", "I", "P", "T", ":">>,
      <<"O", "N", "L", "O", "A", "D", "=">>, <<"O", "n", "E", "r", "r", "o", "r", "=">>,
      <<"<", "s", "c", "r", "i", "p", "t">>, <<"j", "a", "v", "a", "s", "c", "r", "i", "p", "t">>, <<"d", "a", "t", "a", ":", "t", "e", "x", "t", "/", "p", "l", "a", "i", "n">>, <<"o", "n", "l", "o", "a", "d", " ", "=">>,
      <<"h", "e", "l", "l", "o", " ", "w", "o", "r", "l", "d">>, <<>> }

ValidateInputs ==
    { PyStr(Pad(a) \o c \o Pad(b)) : a \in 0..MaxPad, b \in 0..MaxPad, c \in ValidateCores }
    \cup { PyNone, PyInt(0), PyInt(5) }

RECURSIVE Up(_)
Up(k) == IF k = 0 THEN <<>> ELSE <<"/", ".", ".">> \o Up(k - 1)

PathBases ==
    { <<"/", "a", "l", "l", "o", "w", "e", "d", "/", "d", "i", "r", "e", "c", "t", "o", "r", "y">>, <<"/", "a", "l", "l", "o", "w", "e", "d", "/", "d", "i", "r", "e", "c", "t", "o", "r", "y", "-", "e", "v", "i", "l">>, <<"/", "o", "t", "h", "e", "r", "/", "d", "i", "r">>,
      <<"d", "i", "r", "e", "c", "t", "o", "r", "y">> }

PathTails ==
    { <<>>, <<"/", "o", "k", ".", "t", "x", "t">>, <<"/", "a", ".", ".", "b", ".", "t", "x", "t">>, <<"/", "m", "i", "s", "s", "i", "n", "g", ".", "t", "x", "t">>, <<"/", "l", "o", "c", "k", "e", "d", ".", "t", "x", "t">>,
      <<"/", "b", "i", "n", "a", "r", "y", ".", "d", "a", "t">>, <<"/", "s", "e", "c", "r", "e", "t", ".", "t", "x", "t">>, <<"/", "e", "t", "c", "/", "p", "a", "s", "s", "w", "d">>, <<"/", "l", "i", "n", "k", "/", "p", "a", "s", "s", "w", "d">>,
      <<"/", "d", "i", "r", "e", "c", "t", "o", "r", "y", "/", "o", "k", ".", "t", "x", "t">>, <<"/", "o", "k", ".", "t", "x", "t", "/", "x">> }

RequestedPaths ==
    { PyStr(b \o Up(k) \o t) : b \in PathBases, k \in 0..MaxUp, t \in PathTails }
    \cup { PyNone }

Operations == {"read", "write", "delete"}

Dir == [kind |-> "dir", text |-> <<>>, readable |-> TRUE, utf8 |-> TRUE, target |-> <<>>]
File(text, readable, utf8) ==
    [kind |-> "file", text |-> text, readable |-> readable, utf8 |-> utf8,
     target |-> <<>>]
Symlink(target) ==
    [kind |-> "symlink", text |-> <<>>, readable |-> TRUE, utf8 |-> TRUE,
     target |-> target]

\* A filesystem with the allowed directory, a sibling whose name extends
\* it, and files that cannot be read or decoded.
PlainFs ==
    (<<"/">> :> Dir) @@
    (<<"/", "a", "l", "l", "o", "w", "e", "d">> :> Dir) @@
    (<<"/", "a", "l", "l", "o", "w", "e", "d", "/", "d", "i", "r", "e", "c", "t", "o", "r", "y">> :> Dir) @@
    (<<"/", "a", "l", "l", "o", "w", "e", "d", "/", "d", "i", "r", "e", "c", "t", "o", "r", "y", "/", "o", "k", ".", "t", "x", "t">> :> File(<<"o", "k">>, TRUE, TRUE)) @@
    (<<"/", "a", "l", "l", "o", "w", "e", "d", "/", "d", "i", "r", "e", "c", "t", "o", "r", "y", "/", "a", ".", ".", "b", ".", "t", "x", "t">> :> File(<<"d", "o", "t", "s">>, TRUE, TRUE)) @@
    (<<"/", "a", "l", "l", "o", "w", "e", "d", "/", "d", "i", "r", "e", "c", "t", "o", "r", "y", "/", "l", "o", "c", "k", "e", "d", ".", "t", "x", "t">> :> File(<<"l", "o", "c", "k", "e", "d">>, FALSE, TRUE)) @@
    (<<"/", "a", "l", "l", "o", "w", "e", "d", "/", "d", "i", "r", "e", "c", "t", "o", "r", "y", "/", "b", "i", "n", "a", "r", "y", ".", "d", "a", "t">> :> File(<<"b", "i", "n">>, TRUE, FALSE)) @@
    (<<"/", "a", "l", "l", "o", "w", "e", "d", "/", "d", "i", "r", "e", "c", "t", "o", "r", "y", "-", "e", "v", "i", "l">> :> Dir) @@
    (<<"/", "a", "l", "l", "o", "w", "e", "d", "/", "d", "i", "r", "e", "c", "t", "o", "r", "y", "-", "e", "v", "i", "l", "/", "s", "e", "c", "r", "e", "t", ".", "t", "x", "t">> :> File(<<"s", "e", "c", "r", "e", "t">>, TRUE, TRUE)) @@
    (<<"/", "e", "t", "c">> :> Dir) @@
    (<<"/", "e", "t", "c", "/", "p", "a", "s", "s", "w", "d">> :> File(<<"r", "o", "o", "t">>, TRUE, TRUE)) @@
    (<<"/", "o", "t", "h", "e", "r">> :> Dir) @@
    (<<"/", "o", "t", "h", "e", "r", "/", "d", "i", "r">> :> Dir) @@
    (<<"/", "o", "t", "h", "e", "r", "/", "d", "i", "r", "/", "o", "k", ".", "t", "x", "t">> :> File(<<"o", "t", "h", "e", "r">>, TRUE, TRUE))

\* The same with a symbolic link inside the allowed directory that leads out.
LinkFs == PlainFs @@ (<<"/", "a", "l", "l", "o", "w", "e", "d", "/", "d", "i", "r", "e", "c", "t", "o", "r", "y", "/", "l", "i", "n", "k">> :> Symlink(<<"/", "e", "t", "c">>))

FileSystems == {PlainFs, LinkFs}
WorkingDirs == { <<"/", "a", "l", "l", "o", "w", "e", "d">>, <<"/", "o", "t", "h", "e", "r", "/", "d", "i", "r">> }

Ints == -1..MaxArg
ApiKeys == { PyStr(<<>>), PyStr(<<"k">>) }
TimeoutArgs == { PyInt(n) : n \in Ints } \cup { PyInt(DEFAULT_TIMEOUT), Omitted }
RetriesArgs == { PyInt(n) : n \in Ints } \cup { PyInt(MAX_RETRIES), Omitted }

Json1 == PyDict([id |-> "12345"])
Json2 == PyDict([id |-> "67890"])
StatusCodes == {200, 304, 404, 500}
Transports ==
    { Response(s, TRUE, Json1) : s \in StatusCodes } \cup
    { Response(s, FALSE, PyNone) : s \in StatusCodes \ {404} } \cup
    { Response(200, TRUE, Json2), TransportError("Timeout"),
      TransportError("ConnectionError") }

Endpoints == { <<"u", "s", "e", "r", "s", "/", "1">>, <<"/", "/", "s", "t", "a", "t", "u", "s">> }
Methods == { [method |-> "GET", data |-> PyNone], [method |-> "POST", data |-> Json1] }
UserIds == { PyStr(<<>>), PyStr(<<" ", " ">>), PyStr(<<" ", "\t">>), PyStr(<<"\f">>),
             PyStr(<<" ", "", "">>), PyStr(<<"1", "2", "3", "4", "5">>), PyStr(<<" ", "7", " ">>),
             PyStr(<<"7", "\f">>), PyStr(<<"/", "7">>), PyNone }

(***************************************************************************)
(* The state machine.                                                      *)
(***************************************************************************)
Init ==
    /\ config = NoConfig
    /\ api = NoApi
    /\ fs \in FileSystems
    /\ cwd \in WorkingDirs
    /\ last = [op |-> "none"]

\* config = Config(api_key, timeout, max_retries): __init__ then
\* __post_init__; the caller holds the new object only if __post_init__ does
\* not raise. A client built before keeps the Config it was given.
ConfigNew ==
    /\ \E api_key \in ApiKeys, timeout \in TimeoutArgs, max_retries \in RetriesArgs :
        LET self == Config_init(api_key, timeout, max_retries)
            r == post_init(self)
        IN  /\ config' = IF r.kind = "return" THEN self ELSE config
            /\ api' = IF r.kind = "return" THEN [api EXCEPT !.shared = FALSE] ELSE api
            /\ last' = [op |-> "Config", api_key |-> api_key, timeout |-> timeout,
                        max_retries |-> max_retries, out |-> r,
                        obj |-> IF r.kind = "return" THEN self ELSE NoConfig]
    /\ UNCHANGED <<fs, cwd>>

\* The object after <object>.<field> = value: the dataclass is not frozen,
\* an assignment stores the value and runs no validation.
setattr(obj, field, value) ==
    CASE field = "api_key" -> [obj EXCEPT !.api_key = value.v]
      [] field = "timeout" -> [obj EXCEPT !.timeout = value.v[1]]
      [] field = "max_retries" -> [obj EXCEPT !.max_retries = value.v[1]]

FieldValues(field) ==
    IF field = "api_key" THEN ApiKeys ELSE { PyInt(n) : n \in Ints }

\* config.<field> = value, on the Config the caller holds; the client sees
\* the assignment when its config is that same object.
SetField ==
    /\ config.alive
    /\ \E field \in {"api_key", "timeout", "max_retries"} :
        \E value \in FieldValues(field) :
            /\ config' = setattr(config, field, value)
            /\ api' = IF api.alive /\ api.shared
                      THEN [api EXCEPT !.config = setattr(config, field, value)]
                      ELSE api
            /\ last' = [op |-> "setattr", target |-> "config", field |-> field]
    /\ UNCHANGED <<fs, cwd>>

\* api_client.config.<field> = value, on the Config the client holds.
SetClientField ==
    /\ api.alive
    /\ \E field \in {"api_key", "timeout", "max_retries"} :
        \E value \in FieldValues(field) :
            /\ api' = [api EXCEPT !.config = setattr(api.config, field, value)]
            /\ config' = IF api.shared THEN setattr(api.config, field, value) ELSE config
            /\ last' = [op |-> "setattr", target |-> "api_client.config", field |-> field]
    /\ UNCHANGED <<fs, cwd>>

\* api_client = SecureAPI(config); the caller holds the new client only if
\* __init__ does not raise.
SecureAPINew ==
    /\ config.alive
    /\ \E requests_available \in BOOLEAN :
        LET r == create_session(config, requests_available)
        IN  /\ api' = IF r.out.kind = "return" THEN r.api ELSE api
            /\ last' = [op |-> "SecureAPI", out |-> r.out]
    /\ UNCHANGED <<config, fs, cwd>>

\* api_client.make_request(endpoint, method, data)
MakeRequest ==
    /\ api.alive
    /\ \E endpoint \in Endpoints, m \in Methods, transport \in Transports :
        \E r \in {make_request(api.config, endpoint, m.method, m.data, transport)} :
            last' = [op |-> "make_request", endpoint |-> endpoint,
                     method |-> m.method, data |-> m.data, transport |-> transport,
                     out |-> r.out, calls |-> r.calls]
    /\ UNCHANGED <<config, api, fs, cwd>>

\* api_client.get_user_info(user_id)
GetUserInfo ==
    /\ api.alive
    /\ \E user_id \in UserIds, transport \in Transports :
        \E r \in {get_user_info(api.config, user_id, transport)} :
            last' = [op |-> "get_user_info", user_id |-> user_id,
                     transport |-> transport, out |-> r.out, calls |-> r.calls]
    /\ UNCHANGED <<config, api, fs, cwd>>

\* validate_input(data)
ValidateInput ==
    /\ \E data \in ValidateInputs :
        \E r \in {validate_input(data)} :
            last' = [op |-> "validate_input", data |-> data, out |-> r.out,
                     warned |-> r.warned]
    /\ UNCHANGED <<config, api, fs, cwd>>

\* safe_file_operation(file_path, operation)
SafeFileOperation ==
    /\ \E file_path \in RequestedPaths, operation \in Operations :
        \E r \in {safe_file_operation(file_path, operation, cwd, fs)} :
            /\ fs' = r.fs
            /\ last' = [op |-> "safe_file_operation", file_path |-> file_path,
                        operation |-> operation, out |-> r.out, opened |-> r.opened,
                        path |-> r.path]
    /\ UNCHANGED <<config, api, cwd>>

\* Every operation of the module. The client, the validator and the path
\* guard share no state, so each is checked in a specification of its own
\* below.
Next ==
    \/ ConfigNew
    \/ SetField
    \/ SetClientField
    \/ SecureAPINew
    \/ MakeRequest
    \/ GetUserInfo
    \/ ValidateInput
    \/ SafeFileOperation

Spec == Init /\ [][Next]_vars

\* One environment, for the specifications that do not touch the filesystem.
InitApi == Init /\ fs = PlainFs /\ cwd = <<"/", "a", "l", "l", "o", "w", "e", "d">>

\* The construction of Configs and of clients.
NextConfig == ConfigNew \/ SecureAPINew
SpecConfig == InitApi /\ [][NextConfig]_vars

\* main() after its two constructions: config = Config(api_key=api_key),
\* with the defaults, and api_client = SecureAPI(config).
InitClient ==
    /\ config = Config_init(PyStr(<<"k">>), Omitted, Omitted)
    /\ api = create_session(Config_init(PyStr(<<"k">>), Omitted, Omitted), TRUE).api
    /\ fs = PlainFs
    /\ cwd = <<"/", "a", "l", "l", "o", "w", "e", "d">>
    /\ last = [op |-> "SecureAPI", out |-> Return(PyNone)]

\* The client at work on the Config it shares with its caller, with the
\* field assignments either of them can make.
NextApi == SetField \/ SetClientField \/ MakeRequest \/ GetUserInfo
SpecApi == InitClient /\ [][NextApi]_vars

\* The validator alone.
SpecValidator == InitApi /\ [][ValidateInput]_vars

\* The path guard alone, over every environment.
SpecPathGuard == Init /\ [][SafeFileOperation]_vars

(***************************************************************************)
(* The claims.                                                             *)
(***************************************************************************)
\* A path string lies in the subtree of a root when the root's segments
\* are the first segments of the path.
InSubtree(path, root) ==
    /\ Len(Segments(root)) <= Len(Segments(path))
    /\ SubSeq(Segments(path), 1, Len(Segments(root))) = Segments(root)

AllowedRoot == resolve(<<"/", "a", "l", "l", "o", "w", "e", "d", "/", "d", "i", "r", "e", "c", "t", "o", "r", "y">>, cwd, fs)

\* C1: whenever safe_file_operation returns file contents, the resolved path
\* of the file read is the allowed root or a descendant of it by path
\* segments; a requested path that resolves outside that subtree gives None
\* and no file is read.
C1_ReadsStayInAllowedSubtree ==
    (last.op = "safe_file_operation" /\ last.file_path.t = "str") =>
        /\ last.out # Return(PyNone) => InSubtree(last.opened, AllowedRoot)
        /\ ~InSubtree(last.path, AllowedRoot) =>
               (last.out = Return(PyNone) /\ last.opened = <<>>)

\* C2: constructing a Config raises ValueError exactly when the api key is
\* empty, or the timeout is <= 0, or max_retries is < 0; otherwise the
\* construction succeeds and the object's three fields are the arguments
\* given, with timeout 30 and max_retries 3 for an argument left out.
C2_ConfigConstruction ==
    last.op = "Config" =>
        LET t == IF last.timeout.t = "omitted" THEN 30 ELSE last.timeout.v[1]
            r == IF last.max_retries.t = "omitted" THEN 3 ELSE last.max_retries.v[1]
            bad == last.api_key.v = <<>> \/ t <= 0 \/ r < 0
        IN  /\ bad <=> last.out = Raise("ValueError")
            /\ ~bad <=> last.out.kind = "return"
            /\ ~bad => /\ last.obj = [alive |-> TRUE, api_key |-> last.api_key.v,
                                      timeout |-> t, max_retries |-> r]
                       /\ config = last.obj

\* C2 witness: a construction with both defaults succeeded.
C2_Witness ==
    /\ last.op = "Config"
    /\ last.timeout = Omitted /\ last.max_retries = Omitted
    /\ last.out.kind = "return"
    /\ config.timeout = 30 /\ config.max_retries = 3

\* C3: a Config is immutable after creation: no step other than a new
\* construction changes the fields of the Config the caller holds, nor,
\* short of a new client, those of the Config a client holds, and they keep
\* satisfying api key non-empty, timeout > 0, max_retries >= 0.
C3_ConfigImmutable ==
    [][/\ (config.alive /\ last'.op # "Config") =>
              /\ config' = config
              /\ config'.api_key # <<>>
              /\ config'.timeout > 0
              /\ config'.max_retries >= 0
       /\ (api.alive /\ last'.op # "SecureAPI") =>
              /\ api'.config = api.config
              /\ api'.config.api_key # <<>>
              /\ api'.config.timeout > 0
              /\ api'.config.max_retries >= 0]_vars

\* The claim's six denylist patterns.
Denylist ==
    { <<"<", "s", "c", "r", "i", "p", "t", ">">>, <<"j", "a", "v", "a", "s", "c", "r", "i", "p", "t", ":">>, <<"d", "a", "t", "a", ":", "t", "e", "x", "t", "/", "h", "t", "m", "l">>, <<"v", "b", "s", "c", "r", "i", "p", "t", ":">>,
      <<"o", "n", "l", "o", "a", "d", "=">>, <<"o", "n", "e", "r", "r", "o", "r", "=">> }

\* Character c lower-cases to q.
FoldsTo(c, q) ==
    c = q \/ \E i \in 1..26 : UpperAlpha[i] = c /\ LowerAlpha[i] = q

\* Pattern p occurs in the lower-cased string s.
OccursFolded(p, s) ==
    \E k \in 0..(Len(s) - Len(p)) : \A j \in 1..Len(p) : FoldsTo(s[k + j], p[j])

\* C4: validate_input returns False for an input that is empty or not a
\* string, False for a string whose lower-cased form contains one of the six
\* denylist patterns, True in every other case, and never raises.
C4_ValidateInput ==
    last.op = "validate_input" =>
        LET d == last.data
            rejected == \/ d.t # "str"
                        \/ d.v = <<>>
                        \/ \E p \in Denylist : OccursFolded(p, d.v)
        IN  last.out = Return(IF rejected THEN PyFalse ELSE PyTrue)

\* C4 witness: an upper-case pattern inside a longer string was refused.
C4_Witness ==
    /\ last.op = "validate_input"
    /\ last.data = PyStr(<<"x", "O", "N", "L", "O", "A", "D", "=", "x">>)
    /\ last.out = Return(PyFalse)

\* C5: safe_file_operation never raises: a rejection, a resolution failure
\* and a read failure each end with None, and the only result that is not
\* None is the text of a file that was read successfully.
C5_SafeReadNeverRaises ==
    last.op = "safe_file_operation" =>
        /\ last.out.kind = "return"
        /\ last.out.value # PyNone =>
               /\ last.operation = "read"
               /\ last.opened \in DOMAIN fs
               /\ fs[last.opened].kind = "file"
               /\ fs[last.opened].readable
               /\ fs[last.opened].utf8
               /\ last.out.value = PyStr(fs[last.opened].text)

\* C5 witness: a read that failed with permission denied ended with None.
C5_Witness ==
    /\ last.op = "safe_file_operation"
    /\ last.operation = "read"
    /\ last.opened = <<"/", "a", "l", "l", "o", "w", "e", "d", "/", "d", "i", "r", "e", "c", "t", "o", "r", "y", "/", "l", "o", "c", "k", "e", "d", ".", "t", "x", "t">>
    /\ ~fs[last.opened].readable
    /\ last.out = Return(PyNone)

RequestFailed == {"HTTPError", "Timeout", "ConnectionError"}
DecodeError == "JSONDecodeError"

\* C6: a non-2xx status raises RequestFailed; a 2xx status with a
\* body that is not JSON raises DecodeError; a 2xx status with a JSON body
\* returns that value; a transport failure raises RequestFailed.
C6_Non2xxFails ==
    last.op = "make_request" =>
        LET t == last.transport
        IN  IF t.kind = "exception"
            THEN last.out.kind = "raise" /\ last.out.exc \in RequestFailed
            ELSE IF ~(200 <= t.status_code /\ t.status_code <= 299)
            THEN last.out.kind = "raise" /\ last.out.exc \in RequestFailed
            ELSE IF ~t.valid_json
            THEN last.out = Raise(DecodeError)
            ELSE last.out = Return(t.json)

\* C7: each make_request issues exactly one call on the session, whatever
\* max_retries is and whether the call fails.
C7_OneTransportCall ==
    last.op = "make_request" => Len(last.calls) = 1

\* C7 witness: a request failed with retries configured, after one call.
C7_Witness ==
    /\ last.op = "make_request"
    /\ api.config.max_retries = 3
    /\ last.out = Raise("Timeout")
    /\ Len(last.calls) = 1

\* C8: get_user_info with an empty or whitespace-only user id raises
\* ValueError and calls nothing; with any other user id it issues exactly the
\* GET of users/{user_id} with no body, and gives what make_request gives.
C8_GetUserInfo ==
    (last.op = "get_user_info" /\ last.user_id.t = "str") =>
        LET u == last.user_id.v
            blank == \A i \in 1..Len(u) : u[i] \in Whitespace
        IN  IF blank
            THEN last.out = Raise("ValueError") /\ last.calls = <<>>
            ELSE /\ last.calls =
                        << [method |-> "GET",
                            url |-> <<"h", "t", "t", "p", "s", ":", "/", "/", "a", "p", "i", ".", "e", "x", "a", "m", "p", "l", "e", ".", "c", "o", "m", "/", "u", "s", "e", "r", "s", "/">> \o u,
                            json |-> PyNone,
                            timeout |-> api.config.timeout] >>
                 /\ last.out =
                        make_request(api.config, <<"u", "s", "e", "r", "s", "/">> \o u, "GET", PyNone,
                                     last.transport).out

\* C8 witness: a user id of two spaces was refused without a call.
C8_Witness ==
    /\ last.op = "get_user_info"
    /\ last.user_id = PyStr(<<" ", " ">>)
    /\ last.out = Raise("ValueError")
    /\ last.calls = <<>>

\* C9: safe_file_operation in "write" mode leaves the filesystem unchanged
\* and returns None, for every requested path.
C9_WriteModeNoWrite ==
    [][(last'.op = "safe_file_operation" /\ last'.operation = "write") =>
          (fs' = fs /\ last'.out = Return(PyNone))]_vars

\* C9 witness: a write to a path that passes both checks returned None and
\* the file is as it was.
C9_Witness ==
    /\ last.op = "safe_file_operation"
    /\ last.operation = "write"
    /\ last.path = <<"/", "a", "l", "l", "o", "w", "e", "d", "/", "d", "i", "r", "e", "c", "t", "o", "r", "y", "/", "o", "k", ".", "t", "x", "t">>
    /\ last.out = Return(PyNone)
    /\ fs[last.path].text = <<"o", "k">>

\* The two characters ".." occur in s.
HasDotDot(s) == \E i \in 1..(Len(s) - 1) : s[i] = "." /\ s[i + 1] = "."

\* C10: every requested path whose resolved string contains ".." anywhere
\* is rejected with None and not read, a readable file inside the allowed
\* root whose name contains ".." included.
C10_TextualTraversalCheck ==
    (last.op = "safe_file_operation" /\ last.file_path.t = "str") =>
        (HasDotDot(last.path) => (last.out = Return(PyNone) /\ last.opened = <<>>))

\* C10 witness: the readable file a..b.txt in the allowed root was refused.
C10_Witness ==
    /\ last.op = "safe_file_operation"
    /\ last.operation = "read"
    /\ last.path = <<"/", "a", "l", "l", "o", "w", "e", "d", "/", "d", "i", "r", "e", "c", "t", "o", "r", "y", "/", "a", ".", ".", "b", ".", "t", "x", "t">>
    /\ last.path \in DOMAIN fs
    /\ fs[last.path].kind = "file" /\ fs[last.path].readable /\ fs[last.path].utf8
    /\ last.out = Return(PyNone)

=============================================================================
